---- MODULE Spec2Model ----
(***************************************************************************)
(* timedmap.Map (src/timedmap.go): a key/value store whose entries expire  *)
(* after a default duration, guarded by one sync.RWMutex.                  *)
(*                                                                         *)
(* Every method is modelled as the steps a goroutine takes through it:     *)
(* the call, the acquisition of the mutex, the critical section (one step, *)
(* or one step per iteration of a range loop, each iteration reading the   *)
(* clock through isExpired) and the deferred release at return.  The wall  *)
(* clock is the variable now; Tick advances it between any two steps.      *)
(*                                                                         *)
(* The variant package timerdb (src/unnamed/part_000) shares Get, Delete   *)
(* and Purge; its Set reads the clock before it takes the mutex and its    *)
(* SetExpiration looks up under the shared lock and stores under the       *)
(* exclusive one.  Those methods have steps of their own (Timerdb...).     *)
(*                                                                         *)
(* Specifications: Spec (one goroutine), SpecConc (several goroutines),    *)
(* SpecSnap (one goroutine that keeps the maps Dump returns), SpecTimerdb  *)
(* (several goroutines on the variant) and SpecLive (either package,       *)
(* finitely many calls, a fair scheduler).                                 *)
(***************************************************************************)
EXTENDS Integers, FiniteSets, Sequences, TLC

\* ---------------------------------------------------------------- bounds
\* Sequential specification (one calling goroutine).
NumKeys == 2
MaxVal == 1
MaxTime == 3
MaxTTL == 1
\* Concurrent specification (several calling goroutines).
NumProcs == 2
ConcNumKeys == 2
ConcMaxVal == 0
ConcMaxTime == 1
ConcMaxTTL == 1
\* Specification with the maps Dump returned (one calling goroutine).
SnapNumKeys == 2
SnapMaxVal == 1
SnapMaxTime == 1
SnapMaxTTL == 1
MaxSnaps == 1
\* Specification with finitely many calls, for termination.
LiveNumKeys == 1
LiveMaxVal == 0
LiveMaxTime == 1
LiveMaxTTL == 0
MaxCalls == 3
\* the goroutines of package timerdb use NumProcs and these
TdbNumKeys == 1
TdbMaxVal == 1
TdbMaxTime == 1
TdbMaxTTL == 1

\* The zero value of V (V = int, as in timedmap_test.go): `var zero V`.
ZeroV == 0

Keys == 1..NumKeys
Vals == ZeroV..MaxVal
Times == 0..MaxTime
\* New validates nothing: a negative duration is accepted as well.
TTLs == (-1)..MaxTTL
Procs == {1}

ConcKeys == 1..ConcNumKeys
ConcVals == ZeroV..ConcMaxVal
ConcTimes == 0..ConcMaxTime
ConcTTLs == 0..ConcMaxTTL
ConcProcs == 1..NumProcs

SnapKeys == 1..SnapNumKeys
SnapVals == ZeroV..SnapMaxVal
SnapTimes == 0..SnapMaxTime
SnapTTLs == 0..SnapMaxTTL

LiveKeys == 1..LiveNumKeys
LiveVals == ZeroV..LiveMaxVal
LiveTimes == 0..LiveMaxTime
LiveTTLs == 0..LiveMaxTTL
LiveProcs == 1..NumProcs

TdbKeys == 1..TdbNumKeys
TdbVals == ZeroV..TdbMaxVal
TdbTimes == 0..TdbMaxTime
TdbTTLs == 0..TdbMaxTTL
TdbProcs == 1..NumProcs

\* ----------------------------------------------------------------- state
VARIABLES
    now,                \* the wall clock read by time.Now()
    defaultExpiration,  \* Map.defaultExpiration
    m,                  \* Map.m: a partial function key -> mapEntry
    mu,                 \* Map.mu: [writer: holder or NoProc, readers: set]
    pc,                 \* per goroutine: "idle", "lock", "cs", "unlock"
    call,               \* per goroutine: the method called and its arguments
    todo,               \* per goroutine: keys the range loop has yet to visit
    i,                  \* per goroutine: Purge's counter
    dumpm,              \* per goroutine: Dump's result map
    ret,                \* per goroutine: the value(s) the method returns
    pre,                \* history: Map.m when the goroutine took the mutex
    t0,                 \* history: the clock when the goroutine took the mutex
    tnow,               \* history: the clock the critical section read
    prior,              \* history: hist of Delete's key when it took the mutex
    second,             \* history: this Purge follows a Purge with nothing between
    hist,               \* history per key: the last mutating operation on it
    quiet,              \* history: a Purge took the mutex and since then no other
                        \* writer ran and no entry in the map passed its expiry
    loc,                \* per goroutine: timerdb's SetExpiration locals v, found
    addr,               \* per goroutine: the address of Dump's map dumpm
    snap,               \* the maps Dump returned that callers still hold,
                        \* by address
    pkg,                \* the package whose Map is in use
    budget              \* the calls the goroutines may still start

vars == <<now, defaultExpiration, m, mu, pc, call, todo, i, dumpm, ret,
          pre, t0, tnow, prior, second, hist, quiet,
          loc, addr, snap, pkg, budget>>

NoProc == 0
EmptyMap == [x \in {} |-> 0]
NoCall == [op |-> "none", k |-> 0, v |-> ZeroV, expires |-> 0]
NoRet == [v |-> ZeroV, ok |-> FALSE, n |-> 0]
NoHist == [op |-> "none", at |-> 0, v |-> ZeroV, exp |-> 0, ttlOp |-> "none"]

\* -------------------------------------------------------- data structure
\* mapEntry[V]
mapEntry(value, expires) == [expiresAt |-> expires, v |-> value]

\* The locals `v, found` of a lookup `v, found := m.m[k]` that has not run.
NoLoc == [found |-> FALSE, v |-> mapEntry(ZeroV, 0)]

\* Maps made by `map[K]V{}` are objects with an address; NoAddr is nil.
NoAddr == 0

\* The addresses in use: the maps callers hold and the maps of the Dump
\* calls under way.
UsedAddrs == (DOMAIN snap \cup {addr[p] : p \in DOMAIN addr}) \ {NoAddr}

\* Mutant of NewMapAddr: Dump fills one buffer that every call shares.
NewMapAddrShared == CHOOSE a \in {1} : TRUE

\* `map[K]V{}` allocates a map no one else refers to.
NewMapAddr == CHOOSE a \in 1..(Cardinality(UsedAddrs) + 1) : a \notin UsedAddrs

\* A store into the map at address a is seen by whoever holds that map.
WriteThrough(held, a, contents) ==
    IF a \in DOMAIN held THEN [held EXCEPT ![a] = contents] ELSE held

\* The number of calls that may be started is either unlimited or n.
NoLimit == [limited |-> FALSE, n |-> 0]
Limit(n) == [limited |-> TRUE, n |-> n]

\* Mutants of isExpired: a non-strict comparison, and the operands swapped.
isExpiredNonStrict(me, t) == t >= me.expiresAt

isExpiredSwapped(me, t) == me.expiresAt > t

\* isExpired with time.Now() = t: t.After(me.expiresAt) is a strict comparison.
isExpired(me, t) == t > me.expiresAt

\* m.m[k] = e
Put(mm, k, e) == [x \in DOMAIN mm \cup {k} |-> IF x = k THEN e ELSE mm[x]]

\* delete(m.m, k): a no-op when k is not in the map.
Remove(mm, k) == [x \in DOMAIN mm \ {k} |-> mm[x]]

\* Mutant of LockMode: SetExpiration and Reset take the read lock.
LockModeReadForExpiry(op) ==
    IF op \in {"Get", "Dump", "SetExpiration", "Reset"} THEN "R" ELSE "W"

\* The method's lock: RLock ("R") or Lock ("W").
LockMode(op) == IF op \in {"Get", "Dump"} THEN "R" ELSE "W"

\* Mutant of Add: a negative duration counts as zero.
AddClamped(t, d) == t + (IF d < 0 THEN 0 ELSE d)

\* time.Now().Add(d)
Add(t, d) == t + d

\* ------------------------------------------------------------ operations
\* The calls a goroutine may make, with their arguments.
Calls(keys, vals, times) ==
    {[op |-> "Get", k |-> k, v |-> ZeroV, expires |-> 0] : k \in keys}
    \cup {[op |-> "Set", k |-> k, v |-> v, expires |-> 0] : k \in keys, v \in vals}
    \cup {[op |-> "Delete", k |-> k, v |-> ZeroV, expires |-> 0] : k \in keys}
    \cup {[op |-> "SetExpiration", k |-> k, v |-> ZeroV, expires |-> t] :
             k \in keys, t \in times}
    \cup {[op |-> "Reset", k |-> k, v |-> ZeroV, expires |-> 0] : k \in keys}
    \cup {[op |-> "Purge", k |-> 0, v |-> ZeroV, expires |-> 0],
          [op |-> "Dump", k |-> 0, v |-> ZeroV, expires |-> 0]}

\* New(t): an empty map with defaultExpiration t; nobody holds the mutex.
New(procs, ttls) ==
    /\ now = 0
    /\ defaultExpiration \in ttls
    /\ m = EmptyMap
    /\ mu = [writer |-> NoProc, readers |-> {}]
    /\ pc = [p \in procs |-> "idle"]
    /\ call = [p \in procs |-> NoCall]
    /\ todo = [p \in procs |-> {}]
    /\ i = [p \in procs |-> 0]
    /\ dumpm = [p \in procs |-> EmptyMap]
    /\ ret = [p \in procs |-> NoRet]
    /\ pre = [p \in procs |-> EmptyMap]
    /\ t0 = [p \in procs |-> 0]
    /\ tnow = [p \in procs |-> 0]
    /\ prior = [p \in procs |-> NoHist]
    /\ second = [p \in procs |-> FALSE]
    /\ hist = [k \in {} |-> NoHist]
    /\ quiet = FALSE
    /\ loc = [p \in procs |-> NoLoc]
    /\ addr = [p \in procs |-> NoAddr]
    /\ snap = EmptyMap

\* The history of key k (NoHist until a writer touches k).
Hist(k) == IF k \in DOMAIN hist THEN hist[k] ELSE NoHist

\* The wall clock advances.  An entry whose expiresAt is the current time is
\* live now and expired after the tick.
Tick(maxTime) ==
    /\ now < maxTime
    /\ now' = now + 1
    /\ quiet' = (quiet /\ \A k \in DOMAIN m : m[k].expiresAt # now)
    /\ UNCHANGED <<defaultExpiration, m, mu, pc, call, todo, i, dumpm, ret,
                   pre, t0, tnow, prior, second, hist>>
    /\ UNCHANGED <<loc, addr, snap, pkg, budget>>

\* Where a method starts: timerdb's Set, SetExpiration and Reset have
\* statements before their first lock; every other method locks at once.
Entry(op) ==
    IF op \in {"timerdb.Set", "timerdb.SetExpiration", "timerdb.Reset"}
    THEN "start"
    ELSE "lock"

\* A goroutine calls a method.
Call(p, c) ==
    /\ pc[p] = "idle"
    /\ budget.limited => budget.n > 0
    /\ budget' = IF budget.limited THEN Limit(budget.n - 1) ELSE budget
    /\ pc' = [pc EXCEPT ![p] = Entry(c.op)]
    /\ call' = [call EXCEPT ![p] = c]
    /\ UNCHANGED <<now, defaultExpiration, m, mu, todo, i, dumpm, ret,
                   pre, t0, tnow, prior, second, hist, quiet>>
    /\ UNCHANGED <<loc, addr, snap, pkg>>

\* Mutant of Lock: the writer does not wait for the readers to leave.
LockIgnoresReaders(p) ==
    /\ pc[p] = "lock"
    /\ LockMode(call[p].op) = "W"
    /\ mu.writer = NoProc
    /\ mu' = [mu EXCEPT !.writer = p]
    /\ pc' = [pc EXCEPT ![p] = "cs"]
    /\ todo' = [todo EXCEPT ![p] = IF call[p].op = "Purge" THEN DOMAIN m ELSE {}]
    /\ pre' = [pre EXCEPT ![p] = m]
    /\ t0' = [t0 EXCEPT ![p] = IF call[p].op = "Purge" THEN now ELSE 0]
    /\ prior' = [prior EXCEPT ![p] =
                   IF call[p].op = "Delete" THEN Hist(call[p].k) ELSE NoHist]
    /\ second' = [second EXCEPT ![p] = (call[p].op = "Purge" /\ quiet)]
    /\ quiet' = IF call[p].op = "Purge" THEN TRUE ELSE quiet
    /\ UNCHANGED <<now, defaultExpiration, m, call, i, dumpm, ret, tnow, hist>>
    /\ UNCHANGED <<loc, addr, snap, pkg, budget>>

\* m.mu.Lock(): blocks until there is neither a writer nor a reader.
\* Purge's range loop starts over the keys then in the map.
Lock(p) ==
    /\ pc[p] = "lock"
    /\ LockMode(call[p].op) = "W"
    /\ mu.writer = NoProc
    /\ mu.readers = {}
    /\ mu' = [mu EXCEPT !.writer = p]
    /\ pc' = [pc EXCEPT ![p] = "cs"]
    /\ todo' = [todo EXCEPT ![p] = IF call[p].op = "Purge" THEN DOMAIN m ELSE {}]
    /\ pre' = [pre EXCEPT ![p] = m]
    /\ t0' = [t0 EXCEPT ![p] = IF call[p].op = "Purge" THEN now ELSE 0]
    /\ prior' = [prior EXCEPT ![p] =
                   IF call[p].op = "Delete" THEN Hist(call[p].k) ELSE NoHist]
    /\ second' = [second EXCEPT ![p] = (call[p].op = "Purge" /\ quiet)]
    /\ quiet' = IF call[p].op = "Purge" THEN TRUE ELSE quiet
    /\ UNCHANGED <<now, defaultExpiration, m, call, i, dumpm, ret, tnow, hist>>
    /\ UNCHANGED <<loc, addr, snap, pkg, budget>>

\* m.mu.RLock(): blocks while a writer holds the mutex.  (sync.RWMutex also
\* holds new readers back while a writer waits; that narrows the schedules
\* and adds none, so it is left out.)
\* Dump has made its map dumpm just before, and its range loop starts over
\* the keys then in the map.
RLock(p) ==
    /\ pc[p] = "lock"
    /\ LockMode(call[p].op) = "R"
    /\ mu.writer = NoProc
    /\ mu' = [mu EXCEPT !.readers = @ \cup {p}]
    /\ pc' = [pc EXCEPT ![p] = "cs"]
    /\ todo' = [todo EXCEPT ![p] = IF call[p].op = "Dump" THEN DOMAIN m ELSE {}]
    /\ pre' = [pre EXCEPT ![p] = m]
    /\ t0' = [t0 EXCEPT ![p] = IF call[p].op = "Dump" THEN now ELSE 0]
    /\ addr' = [addr EXCEPT ![p] =
                  IF call[p].op = "Dump" THEN NewMapAddr ELSE NoAddr]
    /\ UNCHANGED <<now, defaultExpiration, m, call, i, dumpm, ret, tnow,
                   prior, second, hist, quiet>>
    /\ UNCHANGED <<loc, snap, pkg, budget>>

\* Mutant of Get: an entry found expired is deleted by the read.
GetDeletesExpired(p) ==
    /\ pc[p] = "cs"
    /\ call[p].op = "Get"
    /\ LET k == call[p].k
           found == k \in DOMAIN m
       IN  ret' = [ret EXCEPT ![p] =
                     IF ~found \/ isExpired(m[k], now)
                     THEN [NoRet EXCEPT !.v = ZeroV, !.ok = FALSE]
                     ELSE [NoRet EXCEPT !.v = m[k].v, !.ok = TRUE]]
    /\ m' = IF call[p].k \in DOMAIN m /\ isExpired(m[call[p].k], now)
            THEN Remove(m, call[p].k)
            ELSE m
    /\ tnow' = [tnow EXCEPT ![p] = now]
    /\ pc' = [pc EXCEPT ![p] = "unlock"]
    /\ UNCHANGED <<now, defaultExpiration, mu, call, todo, i, dumpm,
                   pre, t0, prior, second, hist, quiet>>
    /\ UNCHANGED <<loc, addr, snap, pkg, budget>>

\* func (m *Map[K, V]) Get(k K) (V, bool)
Get(p) ==
    /\ pc[p] = "cs"
    /\ call[p].op = "Get"
    /\ LET k == call[p].k
           found == k \in DOMAIN m
       IN  ret' = [ret EXCEPT ![p] =
                     IF ~found \/ isExpired(m[k], now)
                     THEN [NoRet EXCEPT !.v = ZeroV, !.ok = FALSE]
                     ELSE [NoRet EXCEPT !.v = m[k].v, !.ok = TRUE]]
    /\ tnow' = [tnow EXCEPT ![p] = now]
    /\ pc' = [pc EXCEPT ![p] = "unlock"]
    /\ UNCHANGED <<now, defaultExpiration, m, mu, call, todo, i, dumpm,
                   pre, t0, prior, second, hist, quiet>>
    /\ UNCHANGED <<loc, addr, snap, pkg, budget>>

\* Mutant of Set: an entry that exists keeps its value and only has its
\* timer reset.
SetKeepsValue(p) ==
    /\ pc[p] = "cs"
    /\ call[p].op = "Set"
    /\ LET k == call[p].k
           v == IF k \in DOMAIN m THEN m[k].v ELSE call[p].v
           e == mapEntry(v, Add(now, defaultExpiration))
       IN  /\ m' = Put(m, k, e)
           /\ hist' = Put(hist, k, [op |-> "Set", at |-> now, v |-> call[p].v,
                                    exp |-> now + defaultExpiration,
                                    ttlOp |-> "Set"])
    /\ tnow' = [tnow EXCEPT ![p] = now]
    /\ quiet' = FALSE
    /\ pc' = [pc EXCEPT ![p] = "unlock"]
    /\ UNCHANGED <<now, defaultExpiration, mu, call, todo, i, dumpm, ret,
                   pre, t0, prior, second>>
    /\ UNCHANGED <<loc, addr, snap, pkg, budget>>

\* func (m *Map[K, V]) Set(k K, v V)
Set(p) ==
    /\ pc[p] = "cs"
    /\ call[p].op = "Set"
    /\ LET k == call[p].k
           e == mapEntry(call[p].v, Add(now, defaultExpiration))
       IN  /\ m' = Put(m, k, e)
           /\ hist' = Put(hist, k, [op |-> "Set", at |-> now, v |-> call[p].v,
                                    exp |-> now + defaultExpiration,
                                    ttlOp |-> "Set"])
    /\ tnow' = [tnow EXCEPT ![p] = now]
    /\ quiet' = FALSE
    /\ pc' = [pc EXCEPT ![p] = "unlock"]
    /\ UNCHANGED <<now, defaultExpiration, mu, call, todo, i, dumpm, ret,
                   pre, t0, prior, second>>
    /\ UNCHANGED <<loc, addr, snap, pkg, budget>>

\* Mutant of Delete: the entry is deleted only when the result is true.
DeleteOnlyLive(p) ==
    /\ pc[p] = "cs"
    /\ call[p].op = "Delete"
    /\ LET k == call[p].k
           found == k \in DOMAIN m
           retval == found /\ ~isExpired(m[k], now)
       IN  /\ m' = IF retval THEN Remove(m, k) ELSE m
           /\ ret' = [ret EXCEPT ![p] = [NoRet EXCEPT !.ok = retval]]
           /\ hist' = Put(hist, k, [Hist(k) EXCEPT !.op = "Delete", !.at = 0, !.v = ZeroV])
    /\ tnow' = [tnow EXCEPT ![p] = now]
    /\ quiet' = FALSE
    /\ pc' = [pc EXCEPT ![p] = "unlock"]
    /\ UNCHANGED <<now, defaultExpiration, mu, call, todo, i, dumpm,
                   pre, t0, prior, second>>
    /\ UNCHANGED <<loc, addr, snap, pkg, budget>>

\* func (m *Map[K, V]) Delete(k K) bool
Delete(p) ==
    /\ pc[p] = "cs"
    /\ call[p].op = "Delete"
    /\ LET k == call[p].k
           found == k \in DOMAIN m
           retval == found /\ ~isExpired(m[k], now)
       IN  /\ m' = Remove(m, k)
           /\ ret' = [ret EXCEPT ![p] = [NoRet EXCEPT !.ok = retval]]
           /\ hist' = Put(hist, k, [Hist(k) EXCEPT !.op = "Delete", !.at = 0, !.v = ZeroV])
    /\ tnow' = [tnow EXCEPT ![p] = now]
    /\ quiet' = FALSE
    /\ pc' = [pc EXCEPT ![p] = "unlock"]
    /\ UNCHANGED <<now, defaultExpiration, mu, call, todo, i, dumpm,
                   pre, t0, prior, second>>
    /\ UNCHANGED <<loc, addr, snap, pkg, budget>>

\* SetExpiration's return value: whether k was found in m.m.
SetExpirationOk(mm, k) == k \in DOMAIN mm

\* Mutant of SetExpirationMap: a fresh entry is stored, losing the value.
SetExpirationMapDropsValue(mm, k, expires) ==
    IF k \in DOMAIN mm
    THEN Put(mm, k, mapEntry(ZeroV, expires))
    ELSE mm

\* SetExpiration's effect on m.m: the found entry is copied, its expiresAt
\* overwritten and the copy stored back; nothing happens when k is not found.
SetExpirationMap(mm, k, expires) ==
    IF k \in DOMAIN mm
    THEN Put(mm, k, [mm[k] EXCEPT !.expiresAt = expires])
    ELSE mm

\* Mutant of SetExpiration: the entry is stored back without the "found"
\* test, so an absent key is inserted with the zero value.
SetExpirationUpsert(p) ==
    /\ pc[p] = "cs"
    /\ call[p].op = "SetExpiration"
    /\ LET k == call[p].k
           v == IF k \in DOMAIN m THEN m[k].v ELSE ZeroV
       IN  /\ m' = Put(m, k, mapEntry(v, call[p].expires))
           /\ ret' = [ret EXCEPT ![p] = [NoRet EXCEPT !.ok = TRUE]]
           /\ hist' = Put(hist, k, [Hist(k) EXCEPT
                                      !.op = "SetExpiration", !.at = now,
                                      !.exp = call[p].expires,
                                      !.ttlOp = "SetExpiration"])
    /\ tnow' = [tnow EXCEPT ![p] = now]
    /\ quiet' = FALSE
    /\ pc' = [pc EXCEPT ![p] = "unlock"]
    /\ UNCHANGED <<now, defaultExpiration, mu, call, todo, i, dumpm,
                   pre, t0, prior, second>>
    /\ UNCHANGED <<loc, addr, snap, pkg, budget>>

\* func (m *Map[K, V]) SetExpiration(k K, expires time.Time) bool
SetExpiration(p) ==
    /\ pc[p] = "cs"
    /\ call[p].op = "SetExpiration"
    /\ LET k == call[p].k
           found == SetExpirationOk(m, k)
       IN  IF ~found
           THEN /\ ret' = [ret EXCEPT ![p] = [NoRet EXCEPT !.ok = FALSE]]
                /\ UNCHANGED <<m, hist>>
           ELSE /\ m' = SetExpirationMap(m, k, call[p].expires)
                /\ ret' = [ret EXCEPT ![p] = [NoRet EXCEPT !.ok = TRUE]]
                /\ hist' = Put(hist, k, [Hist(k) EXCEPT
                                           !.op = "SetExpiration", !.at = now,
                                           !.exp = call[p].expires,
                                           !.ttlOp = "SetExpiration"])
    /\ tnow' = [tnow EXCEPT ![p] = now]
    /\ quiet' = FALSE
    /\ pc' = [pc EXCEPT ![p] = "unlock"]
    /\ UNCHANGED <<now, defaultExpiration, mu, call, todo, i, dumpm,
                   pre, t0, prior, second>>
    /\ UNCHANGED <<loc, addr, snap, pkg, budget>>

\* Mutant of ResetMap: the TTL is added to the entry's old expiry.
ResetMapFromOldExpiry(mm, k, t, d) ==
    Put(mm, k, [mm[k] EXCEPT !.expiresAt = Add(mm[k].expiresAt, d)])

\* Reset's effect on m.m when k is found, with time.Now() = t and
\* defaultExpiration = d: the entry is copied, its expiresAt set to
\* t.Add(d) and the copy stored back.
ResetMap(mm, k, t, d) ==
    Put(mm, k, [mm[k] EXCEPT !.expiresAt = Add(t, d)])

\* Mutant of Reset: an expired entry is treated like a missing one.
ResetOnlyLive(p) ==
    /\ pc[p] = "cs"
    /\ call[p].op = "Reset"
    /\ LET k == call[p].k
           found == k \in DOMAIN m /\ ~isExpired(m[k], now)
       IN  IF ~found
           THEN /\ ret' = [ret EXCEPT ![p] = [NoRet EXCEPT !.ok = FALSE]]
                /\ UNCHANGED <<m, hist>>
           ELSE /\ m' = ResetMap(m, k, now, defaultExpiration)
                /\ ret' = [ret EXCEPT ![p] = [NoRet EXCEPT !.ok = TRUE]]
                /\ hist' = Put(hist, k, [Hist(k) EXCEPT
                                           !.op = "Reset", !.at = now,
                                           !.exp = now + defaultExpiration,
                                           !.ttlOp = "Reset"])
    /\ tnow' = [tnow EXCEPT ![p] = now]
    /\ quiet' = FALSE
    /\ pc' = [pc EXCEPT ![p] = "unlock"]
    /\ UNCHANGED <<now, defaultExpiration, mu, call, todo, i, dumpm,
                   pre, t0, prior, second>>
    /\ UNCHANGED <<loc, addr, snap, pkg, budget>>

\* func (m *Map[K, V]) Reset(k K) bool
Reset(p) ==
    /\ pc[p] = "cs"
    /\ call[p].op = "Reset"
    /\ LET k == call[p].k
           found == k \in DOMAIN m
       IN  IF ~found
           THEN /\ ret' = [ret EXCEPT ![p] = [NoRet EXCEPT !.ok = FALSE]]
                /\ UNCHANGED <<m, hist>>
           ELSE /\ m' = ResetMap(m, k, now, defaultExpiration)
                /\ ret' = [ret EXCEPT ![p] = [NoRet EXCEPT !.ok = TRUE]]
                /\ hist' = Put(hist, k, [Hist(k) EXCEPT
                                           !.op = "Reset", !.at = now,
                                           !.exp = now + defaultExpiration,
                                           !.ttlOp = "Reset"])
    /\ tnow' = [tnow EXCEPT ![p] = now]
    /\ quiet' = FALSE
    /\ pc' = [pc EXCEPT ![p] = "unlock"]
    /\ UNCHANGED <<now, defaultExpiration, mu, call, todo, i, dumpm,
                   pre, t0, prior, second>>
    /\ UNCHANGED <<loc, addr, snap, pkg, budget>>

\* Mutant of PurgeRange: the counter is incremented for every entry visited.
PurgeRangeCountsAll(p) ==
    /\ pc[p] = "cs"
    /\ call[p].op = "Purge"
    /\ \E k \in todo[p] \cap DOMAIN m :
          /\ todo' = [todo EXCEPT ![p] = @ \ {k}]
          /\ i' = [i EXCEPT ![p] = @ + 1]
          /\ IF isExpired(m[k], now)
             THEN /\ m' = Remove(m, k)
                  /\ hist' = Put(hist, k, [Hist(k) EXCEPT
                                             !.op = "Purge", !.at = 0, !.v = ZeroV])
             ELSE UNCHANGED <<m, hist>>
    /\ UNCHANGED <<now, defaultExpiration, mu, pc, call, dumpm, ret,
                   pre, t0, tnow, prior, second, quiet>>
    /\ UNCHANGED <<loc, addr, snap, pkg, budget>>

\* Mutant of PurgeRange: an expired entry is counted and left in the map.
PurgeRangeNoDelete(p) ==
    /\ pc[p] = "cs"
    /\ call[p].op = "Purge"
    /\ \E k \in todo[p] \cap DOMAIN m :
          /\ todo' = [todo EXCEPT ![p] = @ \ {k}]
          /\ IF isExpired(m[k], now)
             THEN /\ i' = [i EXCEPT ![p] = @ + 1]
                  /\ UNCHANGED <<m, hist>>
             ELSE UNCHANGED <<i, m, hist>>
    /\ UNCHANGED <<now, defaultExpiration, mu, pc, call, dumpm, ret,
                   pre, t0, tnow, prior, second, quiet>>
    /\ UNCHANGED <<loc, addr, snap, pkg, budget>>

\* One iteration of Purge's `for k, v := range m.m`: the order is not
\* specified, and a key deleted before it is reached is not produced.
PurgeRange(p) ==
    /\ pc[p] = "cs"
    /\ call[p].op = "Purge"
    /\ \E k \in todo[p] \cap DOMAIN m :
          /\ todo' = [todo EXCEPT ![p] = @ \ {k}]
          /\ IF isExpired(m[k], now)
             THEN /\ i' = [i EXCEPT ![p] = @ + 1]
                  /\ m' = Remove(m, k)
                  /\ hist' = Put(hist, k, [Hist(k) EXCEPT
                                             !.op = "Purge", !.at = 0, !.v = ZeroV])
             ELSE UNCHANGED <<i, m, hist>>
    /\ UNCHANGED <<now, defaultExpiration, mu, pc, call, dumpm, ret,
                   pre, t0, tnow, prior, second, quiet>>
    /\ UNCHANGED <<loc, addr, snap, pkg, budget>>

\* Purge's loop is over: return i.
PurgeReturn(p) ==
    /\ pc[p] = "cs"
    /\ call[p].op = "Purge"
    /\ todo[p] \cap DOMAIN m = {}
    /\ ret' = [ret EXCEPT ![p] = [NoRet EXCEPT !.n = i[p]]]
    /\ pc' = [pc EXCEPT ![p] = "unlock"]
    /\ UNCHANGED <<now, defaultExpiration, m, mu, call, todo, i, dumpm,
                   pre, t0, tnow, prior, second, hist, quiet>>
    /\ UNCHANGED <<loc, addr, snap, pkg, budget>>

\* Mutant of DumpRange: every entry is copied, expired or not.
DumpRangeNoCheck(p) ==
    /\ pc[p] = "cs"
    /\ call[p].op = "Dump"
    /\ \E k \in todo[p] \cap DOMAIN m :
          /\ todo' = [todo EXCEPT ![p] = @ \ {k}]
          /\ dumpm' = [dumpm EXCEPT ![p] = Put(@, k, m[k].v)]
    /\ snap' = WriteThrough(snap, addr[p], dumpm'[p])
    /\ UNCHANGED <<now, defaultExpiration, m, mu, pc, call, i, ret,
                   pre, t0, tnow, prior, second, hist, quiet>>
    /\ UNCHANGED <<loc, addr, pkg, budget>>

\* One iteration of Dump's `for k, v := range m.m`.
DumpRange(p) ==
    /\ pc[p] = "cs"
    /\ call[p].op = "Dump"
    /\ \E k \in todo[p] \cap DOMAIN m :
          /\ todo' = [todo EXCEPT ![p] = @ \ {k}]
          /\ IF ~isExpired(m[k], now)
             THEN dumpm' = [dumpm EXCEPT ![p] = Put(@, k, m[k].v)]
             ELSE UNCHANGED dumpm
    /\ snap' = WriteThrough(snap, addr[p], dumpm'[p])
    /\ UNCHANGED <<now, defaultExpiration, m, mu, pc, call, i, ret,
                   pre, t0, tnow, prior, second, hist, quiet>>
    /\ UNCHANGED <<loc, addr, pkg, budget>>

\* Dump's loop is over: return dumpm.
DumpReturn(p) ==
    /\ pc[p] = "cs"
    /\ call[p].op = "Dump"
    /\ todo[p] \cap DOMAIN m = {}
    /\ pc' = [pc EXCEPT ![p] = "unlock"]
    /\ UNCHANGED <<now, defaultExpiration, m, mu, call, todo, i, dumpm, ret,
                   pre, t0, tnow, prior, second, hist, quiet>>
    /\ UNCHANGED <<loc, addr, snap, pkg, budget>>

\* The goroutine's locals are gone once the method has returned.
Return(p) ==
    /\ pc' = [pc EXCEPT ![p] = "idle"]
    /\ call' = [call EXCEPT ![p] = NoCall]
    /\ todo' = [todo EXCEPT ![p] = {}]
    /\ i' = [i EXCEPT ![p] = 0]
    /\ dumpm' = [dumpm EXCEPT ![p] = EmptyMap]
    /\ ret' = [ret EXCEPT ![p] = NoRet]
    /\ pre' = [pre EXCEPT ![p] = EmptyMap]
    /\ t0' = [t0 EXCEPT ![p] = 0]
    /\ tnow' = [tnow EXCEPT ![p] = 0]
    /\ prior' = [prior EXCEPT ![p] = NoHist]
    /\ second' = [second EXCEPT ![p] = FALSE]
    /\ loc' = [loc EXCEPT ![p] = NoLoc]
    /\ addr' = [addr EXCEPT ![p] = NoAddr]

\* defer m.mu.Unlock(), run as the method returns.
Unlock(p) ==
    /\ pc[p] = "unlock"
    /\ LockMode(call[p].op) = "W"
    /\ mu' = [mu EXCEPT !.writer = NoProc]
    /\ Return(p)
    /\ UNCHANGED <<now, defaultExpiration, m, hist, quiet>>
    /\ UNCHANGED <<snap, pkg, budget>>

\* defer m.mu.RUnlock(), run as the method returns.
RUnlock(p) ==
    /\ pc[p] = "unlock"
    /\ LockMode(call[p].op) = "R"
    /\ mu' = [mu EXCEPT !.readers = @ \ {p}]
    /\ Return(p)
    /\ UNCHANGED <<now, defaultExpiration, m, hist, quiet>>
    /\ UNCHANGED <<snap, pkg, budget>>

\* ----------------------------------------------- the caller's snapshots
\* Dump returns (`return dumpm`, run with the deferred RUnlock) and the
\* caller keeps the map it got.
KeepSnapshot(p) ==
    /\ pc[p] = "unlock"
    /\ call[p].op = "Dump"
    /\ Cardinality(DOMAIN snap \ {addr[p]}) < MaxSnaps
    /\ mu' = [mu EXCEPT !.readers = @ \ {p}]
    /\ snap' = Put(snap, addr[p], dumpm[p])
    /\ Return(p)
    /\ UNCHANGED <<now, defaultExpiration, m, hist, quiet>>
    /\ UNCHANGED <<pkg, budget>>

\* A store into the map at address a reaches a Dump still filling that map.
StoreSeenByDump(a, contents) ==
    [p \in DOMAIN dumpm |-> IF addr[p] = a THEN contents ELSE dumpm[p]]

\* The caller inserts or overwrites a key in a map it got from Dump.
SnapshotSet(a, k, v) ==
    /\ a \in DOMAIN snap
    /\ snap' = [snap EXCEPT ![a] = Put(@, k, v)]
    /\ dumpm' = StoreSeenByDump(a, snap'[a])
    /\ UNCHANGED <<now, defaultExpiration, m, mu, pc, call, todo, i, ret,
                   pre, t0, tnow, prior, second, hist, quiet>>
    /\ UNCHANGED <<loc, addr, pkg, budget>>

\* The caller deletes a key from a map it got from Dump.
SnapshotDelete(a, k) ==
    /\ a \in DOMAIN snap
    /\ k \in DOMAIN snap[a]
    /\ snap' = [snap EXCEPT ![a] = Remove(@, k)]
    /\ dumpm' = StoreSeenByDump(a, snap'[a])
    /\ UNCHANGED <<now, defaultExpiration, m, mu, pc, call, todo, i, ret,
                   pre, t0, tnow, prior, second, hist, quiet>>
    /\ UNCHANGED <<loc, addr, pkg, budget>>

\* The caller lets go of a map it got from Dump.
SnapshotDrop(a) ==
    /\ a \in DOMAIN snap
    /\ snap' = Remove(snap, a)
    /\ UNCHANGED <<now, defaultExpiration, m, mu, pc, call, todo, i, dumpm, ret,
                   pre, t0, tnow, prior, second, hist, quiet>>
    /\ UNCHANGED <<loc, addr, pkg, budget>>

\* ------------------------------------------- package timerdb (part_000)
\* The variant's Get, Delete and Purge are the code of timedmap.go word for
\* word and take the steps above; its Set, SetExpiration and Reset follow.

\* The calls a goroutine may make on a timerdb Map (which has no Dump).
TimerdbCalls(keys, vals, times) ==
    {[op |-> "Get", k |-> k, v |-> ZeroV, expires |-> 0] : k \in keys}
    \cup {[op |-> "timerdb.Set", k |-> k, v |-> v, expires |-> 0] :
             k \in keys, v \in vals}
    \cup {[op |-> "Delete", k |-> k, v |-> ZeroV, expires |-> 0] : k \in keys}
    \cup {[op |-> "timerdb.SetExpiration", k |-> k, v |-> ZeroV, expires |-> t] :
             k \in keys, t \in times}
    \cup {[op |-> "timerdb.Reset", k |-> k, v |-> ZeroV, expires |-> 0] :
             k \in keys}
    \cup {[op |-> "Purge", k |-> 0, v |-> ZeroV, expires |-> 0]}

\* Set, first statement: expires := time.Now().Add(m.timeout), read before
\* the mutex is taken.  Lock(p) is next.
TimerdbSetExpires(p) ==
    /\ pc[p] = "start"
    /\ call[p].op = "timerdb.Set"
    /\ call' = [call EXCEPT ![p].expires = Add(now, defaultExpiration)]
    /\ pc' = [pc EXCEPT ![p] = "lock"]
    /\ UNCHANGED <<now, defaultExpiration, m, mu, todo, i, dumpm, ret,
                   pre, t0, tnow, prior, second, hist, quiet>>
    /\ UNCHANGED <<loc, addr, snap, pkg, budget>>

\* Set, under the mutex: m.m[k] = mapEntry[V]{v: v, expiration: expires}.
\* Unlock(p) is next.
TimerdbSet(p) ==
    /\ pc[p] = "cs"
    /\ call[p].op = "timerdb.Set"
    /\ m' = Put(m, call[p].k, mapEntry(call[p].v, call[p].expires))
    /\ hist' = Put(hist, call[p].k,
                   [op |-> "Set", at |-> now, v |-> call[p].v,
                    exp |-> call[p].expires, ttlOp |-> "Set"])
    /\ tnow' = [tnow EXCEPT ![p] = now]
    /\ quiet' = FALSE
    /\ pc' = [pc EXCEPT ![p] = "unlock"]
    /\ UNCHANGED <<now, defaultExpiration, mu, call, todo, i, dumpm, ret,
                   pre, t0, prior, second>>
    /\ UNCHANGED <<loc, addr, snap, pkg, budget>>

\* Reset: return m.SetExpiration(k, time.Now().Add(m.timeout)).  The clock
\* is read as the argument is evaluated, and the call is SetExpiration's
\* from here on.
TimerdbReset(p) ==
    /\ pc[p] = "start"
    /\ call[p].op = "timerdb.Reset"
    /\ call' = [call EXCEPT ![p] =
                  [op |-> "timerdb.SetExpiration", k |-> call[p].k, v |-> ZeroV,
                   expires |-> Add(now, defaultExpiration)]]
    /\ UNCHANGED <<now, defaultExpiration, m, mu, pc, todo, i, dumpm, ret,
                   pre, t0, tnow, prior, second, hist, quiet>>
    /\ UNCHANGED <<loc, addr, snap, pkg, budget>>

\* SetExpiration: m.mu.RLock().
TimerdbRLock(p) ==
    /\ pc[p] = "start"
    /\ call[p].op = "timerdb.SetExpiration"
    /\ mu.writer = NoProc
    /\ mu' = [mu EXCEPT !.readers = @ \cup {p}]
    /\ pc' = [pc EXCEPT ![p] = "lookup"]
    /\ UNCHANGED <<now, defaultExpiration, m, call, todo, i, dumpm, ret,
                   pre, t0, tnow, prior, second, hist, quiet>>
    /\ UNCHANGED <<loc, addr, snap, pkg, budget>>

\* SetExpiration: v, found := m.m[k].  v is a copy of the entry.
TimerdbLookup(p) ==
    /\ pc[p] = "lookup"
    /\ LET k == call[p].k
       IN  loc' = [loc EXCEPT ![p] =
                     IF k \in DOMAIN m
                     THEN [found |-> TRUE, v |-> m[k]]
                     ELSE NoLoc]
    /\ pc' = [pc EXCEPT ![p] = "runlock"]
    /\ UNCHANGED <<now, defaultExpiration, m, mu, call, todo, i, dumpm, ret,
                   pre, t0, tnow, prior, second, hist, quiet>>
    /\ UNCHANGED <<addr, snap, pkg, budget>>

\* Mutant of TimerdbRUnlock: the shared lock is not released.
TimerdbRUnlockForgotten(p) ==
    /\ pc[p] = "runlock"
    /\ pc' = [pc EXCEPT ![p] = "found?"]
    /\ UNCHANGED <<now, defaultExpiration, m, mu, call, todo, i, dumpm, ret,
                   pre, t0, tnow, prior, second, hist, quiet>>
    /\ UNCHANGED <<loc, addr, snap, pkg, budget>>

\* SetExpiration: m.mu.RUnlock().
TimerdbRUnlock(p) ==
    /\ pc[p] = "runlock"
    /\ mu' = [mu EXCEPT !.readers = @ \ {p}]
    /\ pc' = [pc EXCEPT ![p] = "found?"]
    /\ UNCHANGED <<now, defaultExpiration, m, call, todo, i, dumpm, ret,
                   pre, t0, tnow, prior, second, hist, quiet>>
    /\ UNCHANGED <<loc, addr, snap, pkg, budget>>

\* SetExpiration: if !found { return false }.
TimerdbNotFound(p) ==
    /\ pc[p] = "found?"
    /\ ~loc[p].found
    /\ Return(p)
    /\ UNCHANGED <<now, defaultExpiration, m, mu, hist, quiet>>
    /\ UNCHANGED <<snap, pkg, budget>>

\* SetExpiration: v.expiration = expires; m.mu.Lock().
TimerdbLock(p) ==
    /\ pc[p] = "found?"
    /\ loc[p].found
    /\ mu.writer = NoProc
    /\ mu.readers = {}
    /\ mu' = [mu EXCEPT !.writer = p]
    /\ loc' = [loc EXCEPT ![p].v.expiresAt = call[p].expires]
    /\ pre' = [pre EXCEPT ![p] = m]
    /\ prior' = [prior EXCEPT ![p] = Hist(call[p].k)]
    /\ pc' = [pc EXCEPT ![p] = "store"]
    /\ UNCHANGED <<now, defaultExpiration, m, call, todo, i, dumpm, ret,
                   t0, tnow, second, hist, quiet>>
    /\ UNCHANGED <<addr, snap, pkg, budget>>

\* Mutant of TimerdbStore: the copy is stored only if k is still in m.m.
TimerdbStoreIfPresent(p) ==
    /\ pc[p] = "store"
    /\ LET k == call[p].k
       IN  IF k \in DOMAIN m
           THEN /\ m' = Put(m, k, loc[p].v)
                /\ hist' = Put(hist, k, [Hist(k) EXCEPT
                                           !.op = "SetExpiration", !.at = now,
                                           !.exp = call[p].expires,
                                           !.ttlOp = "SetExpiration"])
           ELSE UNCHANGED <<m, hist>>
    /\ ret' = [ret EXCEPT ![p] = [NoRet EXCEPT !.ok = TRUE]]
    /\ tnow' = [tnow EXCEPT ![p] = now]
    /\ quiet' = FALSE
    /\ pc' = [pc EXCEPT ![p] = "stored"]
    /\ UNCHANGED <<now, defaultExpiration, mu, call, todo, i, dumpm,
                   pre, t0, prior, second>>
    /\ UNCHANGED <<loc, addr, snap, pkg, budget>>

\* SetExpiration: m.m[k] = v, the copy made by the lookup, whatever m.m
\* holds for k by now.  The method is about to return true.
TimerdbStore(p) ==
    /\ pc[p] = "store"
    /\ LET k == call[p].k
       IN  /\ m' = Put(m, k, loc[p].v)
           /\ hist' = Put(hist, k, [Hist(k) EXCEPT
                                      !.op = "SetExpiration", !.at = now,
                                      !.exp = call[p].expires,
                                      !.ttlOp = "SetExpiration"])
    /\ ret' = [ret EXCEPT ![p] = [NoRet EXCEPT !.ok = TRUE]]
    /\ tnow' = [tnow EXCEPT ![p] = now]
    /\ quiet' = FALSE
    /\ pc' = [pc EXCEPT ![p] = "stored"]
    /\ UNCHANGED <<now, defaultExpiration, mu, call, todo, i, dumpm,
                   pre, t0, prior, second>>
    /\ UNCHANGED <<loc, addr, snap, pkg, budget>>

\* SetExpiration: m.mu.Unlock(); return true.
TimerdbUnlock(p) ==
    /\ pc[p] = "stored"
    /\ mu' = [mu EXCEPT !.writer = NoProc]
    /\ Return(p)
    /\ UNCHANGED <<now, defaultExpiration, m, hist, quiet>>
    /\ UNCHANGED <<snap, pkg, budget>>

\* ------------------------------------------------------- specifications
Init ==
    /\ New(Procs, TTLs)
    /\ pkg = "timedmap"
    /\ budget = NoLimit

Next ==
    \/ Tick(MaxTime)
    \/ \E p \in Procs, c \in Calls(Keys, Vals, Times) : Call(p, c)
    \/ \E p \in Procs : Lock(p)
    \/ \E p \in Procs : RLock(p)
    \/ \E p \in Procs : Get(p)
    \/ \E p \in Procs : Set(p)
    \/ \E p \in Procs : Delete(p)
    \/ \E p \in Procs : SetExpiration(p)
    \/ \E p \in Procs : Reset(p)
    \/ \E p \in Procs : PurgeRange(p)
    \/ \E p \in Procs : PurgeReturn(p)
    \/ \E p \in Procs : DumpRange(p)
    \/ \E p \in Procs : DumpReturn(p)
    \/ \E p \in Procs : Unlock(p)
    \/ \E p \in Procs : RUnlock(p)

\* One goroutine calling the methods one after another.
Spec == Init /\ [][Next]_vars

InitConc ==
    /\ New(ConcProcs, ConcTTLs)
    /\ pkg = "timedmap"
    /\ budget = NoLimit

NextConc ==
    \/ Tick(ConcMaxTime)
    \/ \E p \in ConcProcs, c \in Calls(ConcKeys, ConcVals, ConcTimes) : Call(p, c)
    \/ \E p \in ConcProcs : Lock(p)
    \/ \E p \in ConcProcs : RLock(p)
    \/ \E p \in ConcProcs : Get(p)
    \/ \E p \in ConcProcs : Set(p)
    \/ \E p \in ConcProcs : Delete(p)
    \/ \E p \in ConcProcs : SetExpiration(p)
    \/ \E p \in ConcProcs : Reset(p)
    \/ \E p \in ConcProcs : PurgeRange(p)
    \/ \E p \in ConcProcs : PurgeReturn(p)
    \/ \E p \in ConcProcs : DumpRange(p)
    \/ \E p \in ConcProcs : DumpReturn(p)
    \/ \E p \in ConcProcs : Unlock(p)
    \/ \E p \in ConcProcs : RUnlock(p)

\* Several goroutines calling the methods concurrently.
SpecConc == InitConc /\ [][NextConc]_vars


InitTimerdb ==
    /\ New(TdbProcs, TdbTTLs)
    /\ pkg = "timerdb"
    /\ budget = NoLimit

NextTimerdb ==
    \/ Tick(TdbMaxTime)
    \/ \E p \in TdbProcs, c \in TimerdbCalls(TdbKeys, TdbVals, TdbTimes) : Call(p, c)
    \/ \E p \in TdbProcs : Lock(p)
    \/ \E p \in TdbProcs : RLock(p)
    \/ \E p \in TdbProcs : Get(p)
    \/ \E p \in TdbProcs : Delete(p)
    \/ \E p \in TdbProcs : PurgeRange(p)
    \/ \E p \in TdbProcs : PurgeReturn(p)
    \/ \E p \in TdbProcs : Unlock(p)
    \/ \E p \in TdbProcs : RUnlock(p)
    \/ \E p \in TdbProcs : TimerdbSetExpires(p)
    \/ \E p \in TdbProcs : TimerdbSet(p)
    \/ \E p \in TdbProcs : TimerdbReset(p)
    \/ \E p \in TdbProcs : TimerdbRLock(p)
    \/ \E p \in TdbProcs : TimerdbLookup(p)
    \/ \E p \in TdbProcs : TimerdbRUnlock(p)
    \/ \E p \in TdbProcs : TimerdbNotFound(p)
    \/ \E p \in TdbProcs : TimerdbLock(p)
    \/ \E p \in TdbProcs : TimerdbStore(p)
    \/ \E p \in TdbProcs : TimerdbUnlock(p)

\* Several goroutines calling the methods of a timerdb Map concurrently.
SpecTimerdb == InitTimerdb /\ [][NextTimerdb]_vars


InitSnap ==
    /\ New(Procs, SnapTTLs)
    /\ pkg = "timedmap"
    /\ budget = NoLimit

NextSnap ==
    \/ Tick(SnapMaxTime)
    \/ \E p \in Procs, c \in Calls(SnapKeys, SnapVals, SnapTimes) : Call(p, c)
    \/ \E p \in Procs : Lock(p)
    \/ \E p \in Procs : RLock(p)
    \/ \E p \in Procs : Get(p)
    \/ \E p \in Procs : Set(p)
    \/ \E p \in Procs : Delete(p)
    \/ \E p \in Procs : SetExpiration(p)
    \/ \E p \in Procs : Reset(p)
    \/ \E p \in Procs : PurgeRange(p)
    \/ \E p \in Procs : PurgeReturn(p)
    \/ \E p \in Procs : DumpRange(p)
    \/ \E p \in Procs : DumpReturn(p)
    \/ \E p \in Procs : Unlock(p)
    \/ \E p \in Procs : RUnlock(p)
    \/ \E p \in Procs : KeepSnapshot(p)
    \/ \E a \in DOMAIN snap, k \in SnapKeys, v \in SnapVals : SnapshotSet(a, k, v)
    \/ \E a \in DOMAIN snap, k \in SnapKeys : SnapshotDelete(a, k)
    \/ \E a \in DOMAIN snap : SnapshotDrop(a)

\* One goroutine calling the methods, keeping and changing the maps it gets
\* from Dump.
SpecSnap == InitSnap /\ [][NextSnap]_vars


\* A test program: a Map of either package, a finite number of calls.
InitLive ==
    /\ New(LiveProcs, LiveTTLs)
    /\ pkg \in {"timedmap", "timerdb"}
    /\ budget = Limit(MaxCalls)

\* The calls the Map of the package in use has.
LiveCalls ==
    IF pkg = "timedmap"
    THEN Calls(LiveKeys, LiveVals, LiveTimes)
    ELSE TimerdbCalls(LiveKeys, LiveVals, LiveTimes)

\* A step of goroutine p inside a call it has started.
Run(p) ==
    \/ Lock(p)
    \/ RLock(p)
    \/ Get(p)
    \/ Set(p)
    \/ Delete(p)
    \/ SetExpiration(p)
    \/ Reset(p)
    \/ PurgeRange(p)
    \/ PurgeReturn(p)
    \/ DumpRange(p)
    \/ DumpReturn(p)
    \/ Unlock(p)
    \/ RUnlock(p)
    \/ TimerdbSetExpires(p)
    \/ TimerdbSet(p)
    \/ TimerdbReset(p)
    \/ TimerdbRLock(p)
    \/ TimerdbLookup(p)
    \/ TimerdbRUnlock(p)
    \/ TimerdbNotFound(p)
    \/ TimerdbLock(p)
    \/ TimerdbStore(p)
    \/ TimerdbUnlock(p)

NextLive ==
    \/ Tick(LiveMaxTime)
    \/ \E p \in LiveProcs, c \in LiveCalls : Call(p, c)
    \/ \E p \in LiveProcs : Run(p)

\* The scheduler lets every goroutine that can take a step take one in the
\* end; a goroutine waiting for the mutex can take its step when the mutex
\* is free for it.
Fairness == \A p \in LiveProcs : WF_vars(Run(p))

\* Goroutines making finitely many calls on a Map of either package, under
\* a fair scheduler.
SpecLive == InitLive /\ [][NextLive]_vars /\ Fairness

\* ---------------------------------------------------------------- claims
\* Logical expiry as the specification states it: an entry is expired when
\* the current time is strictly after its expiresAt.
LogicallyExpired(e, t) == t > e.expiresAt

\* Goroutine p has run the critical section of method op and is about to
\* return: ret[p] holds its results and, for a writer, m is the map it left.
Done(p, op) == pc[p] = "unlock" /\ call[p].op = op

\* m and old agree on every key other than k.
SameExcept(mm, old, k) ==
    /\ DOMAIN mm \ {k} = DOMAIN old \ {k}
    /\ \A x \in DOMAIN mm \ {k} : mm[x] = old[x]

\* The Get of p directly follows a Set of the same key: no other writer
\* touched the key and the clock has not advanced since the Set.
GetRightAfterSet(p) ==
    /\ Done(p, "Get")
    /\ Hist(call[p].k).op = "Set"
    /\ Hist(call[p].k).at = tnow[p]

\* C1 as stated: a Get(k) issued immediately after Set(k, v), with no clock
\* advance and no other operation on k in between, returns (v, true).
C1_GetAfterSet_Original ==
    \A p \in DOMAIN pc :
        GetRightAfterSet(p) =>
            ret[p].ok /\ ret[p].v = Hist(call[p].k).v

\* C1 amended: on a map constructed with a non-negative default TTL, a Get(k)
\* issued immediately after Set(k, v), with no clock advance and no other
\* operation on k in between, returns (v, true).
C1_GetAfterSet ==
    \A p \in DOMAIN pc :
        (GetRightAfterSet(p) /\ defaultExpiration >= 0) =>
            ret[p].ok /\ ret[p].v = Hist(call[p].k).v

\* A Get right after a Set has returned the non-zero value just set.
C1_Witness ==
    \E p \in DOMAIN pc :
        /\ GetRightAfterSet(p)
        /\ defaultExpiration >= 0
        /\ ret[p].ok
        /\ ret[p].v # ZeroV

\* C2: when the last operation that set k's expiry is a Set at time t, every
\* Get(k) performed with the clock past t + defaultTTL returns
\* (zero value, false), whether or not the entry is still in the map.
C2_GetAfterTTL ==
    \A p \in DOMAIN pc :
        (/\ Done(p, "Get")
         /\ Hist(call[p].k).ttlOp = "Set"
         /\ tnow[p] > Hist(call[p].k).exp) =>
            ~ret[p].ok /\ ret[p].v = ZeroV

\* A Get after the TTL elapsed found the entry still in the map, holding a
\* non-zero value, and returned not-found.
C2_Witness ==
    \E p \in DOMAIN pc :
        /\ Done(p, "Get")
        /\ Hist(call[p].k).ttlOp = "Set"
        /\ tnow[p] > Hist(call[p].k).exp
        /\ defaultExpiration > 0
        /\ call[p].k \in DOMAIN m
        /\ m[call[p].k].v # ZeroV
        /\ ~ret[p].ok

\* C3: Delete(k) returns true exactly when k was in the map and not logically
\* expired when Delete ran; afterwards k is absent and every other key's
\* entry is unchanged; a Delete(k) that follows a Delete(k) with no Set(k)
\* in between returns false.
C3_Delete ==
    \A p \in DOMAIN pc :
        Done(p, "Delete") =>
            LET k == call[p].k
            IN  /\ ret[p].ok = (k \in DOMAIN pre[p]
                                /\ ~LogicallyExpired(pre[p][k], tnow[p]))
                /\ k \notin DOMAIN m
                /\ SameExcept(m, pre[p], k)
                /\ (prior[p].op = "Delete" => ~ret[p].ok)

\* A Delete of an expired entry still in the map returned false and removed
\* it, leaving the other key's entry in place.
C3_Witness ==
    \E p \in DOMAIN pc :
        /\ Done(p, "Delete")
        /\ call[p].k \in DOMAIN pre[p]
        /\ LogicallyExpired(pre[p][call[p].k], tnow[p])
        /\ ~ret[p].ok
        /\ call[p].k \notin DOMAIN m
        /\ DOMAIN m # {}

\* The last writer that touched k is a SetExpiration(k, t) with t earlier
\* than the time at which it ran.
ExpiredBySetExpiration(h) == h.op = "SetExpiration" /\ h.exp < h.at

\* C4: SetExpiration(k, t) on an absent key returns false and leaves the map
\* unchanged; otherwise it returns true, sets the expiry of k to exactly t and
\* leaves k's value and every other entry unchanged.  With t in the past, a
\* Get(k) right afterwards reports not-found and a following Delete(k) returns
\* false and still removes the entry.
C4_SetExpiration ==
    \A p \in DOMAIN pc :
        LET k == call[p].k
        IN  /\ Done(p, "SetExpiration") =>
                IF k \notin DOMAIN pre[p]
                THEN ~ret[p].ok /\ m = pre[p]
                ELSE /\ ret[p].ok
                     /\ k \in DOMAIN m
                     /\ m[k].expiresAt = call[p].expires
                     /\ m[k].v = pre[p][k].v
                     /\ SameExcept(m, pre[p], k)
            /\ (Done(p, "Get") /\ ExpiredBySetExpiration(Hist(k))) =>
                  ~ret[p].ok /\ ret[p].v = ZeroV
            /\ (Done(p, "Delete") /\ ExpiredBySetExpiration(prior[p])) =>
                  /\ ~ret[p].ok
                  /\ k \in DOMAIN pre[p]
                  /\ k \notin DOMAIN m

\* A Delete that follows a SetExpiration into the past found the entry,
\* returned false and removed it.
C4_Witness ==
    \E p \in DOMAIN pc :
        /\ Done(p, "Delete")
        /\ ExpiredBySetExpiration(prior[p])
        /\ call[p].k \in DOMAIN pre[p]
        /\ pre[p][call[p].k].v # ZeroV
        /\ pre[p][call[p].k].expiresAt = prior[p].exp
        /\ ~ret[p].ok
        /\ call[p].k \notin DOMAIN m

\* C5: Reset(k) returns what SetExpiration(k, now + defaultTTL) returns and
\* leaves the map as that call would; on an absent key it returns false and
\* changes nothing; an entry reset at time r is found by Get(k) at every time
\* up to r + defaultTTL and not after, whenever it was Set.
C5_Reset ==
    \A p \in DOMAIN pc :
        LET k == call[p].k
        IN  /\ Done(p, "Reset") =>
                /\ ret[p].ok = SetExpirationOk(pre[p], k)
                /\ m = SetExpirationMap(pre[p], k, tnow[p] + defaultExpiration)
                /\ (k \notin DOMAIN pre[p] => ~ret[p].ok /\ m = pre[p])
            /\ (Done(p, "Get") /\ Hist(k).op = "Reset") =>
                /\ ret[p].ok = (tnow[p] <= Hist(k).at + defaultExpiration)
                /\ (ret[p].ok => ret[p].v = Hist(k).v)

\* An entry reset at a time r > 0 is found, with its non-zero value, by a
\* Get at r + defaultTTL.
C5_Witness ==
    \E p \in DOMAIN pc :
        /\ Done(p, "Get")
        /\ Hist(call[p].k).op = "Reset"
        /\ Hist(call[p].k).at > 0
        /\ defaultExpiration > 0
        /\ tnow[p] = Hist(call[p].k).at + defaultExpiration
        /\ ret[p].ok
        /\ ret[p].v # ZeroV

\* The keys Purge removed: in the map when it took the mutex, not any more.
Removed(p) == DOMAIN pre[p] \ DOMAIN m

\* C6 as stated: Purge removes exactly the entries that were logically
\* expired at the moment it took the exclusive lock, returns their number and
\* leaves every entry live at that moment in place, unchanged.
C6_Purge_Original ==
    \A p \in DOMAIN pc :
        Done(p, "Purge") =>
            /\ DOMAIN m = {k \in DOMAIN pre[p] :
                             ~LogicallyExpired(pre[p][k], t0[p])}
            /\ \A k \in DOMAIN m : m[k] = pre[p][k]
            /\ ret[p].n = Cardinality(Removed(p))

\* C6 amended: Purge removes every entry that was logically expired when it
\* took the exclusive lock and no entry that is still live when it returns
\* (each entry is tested against the clock when the scan reaches it, so an
\* entry that expires during the scan may be removed or kept); it returns
\* the number of entries it removed, adds none, and leaves every entry it
\* keeps with its value and expiration unchanged.
C6_Purge ==
    \A p \in DOMAIN pc :
        Done(p, "Purge") =>
            /\ DOMAIN m \subseteq DOMAIN pre[p]
            /\ \A k \in DOMAIN pre[p] :
                  /\ LogicallyExpired(pre[p][k], t0[p]) => k \notin DOMAIN m
                  /\ ~LogicallyExpired(pre[p][k], now) => k \in DOMAIN m
                  /\ k \in DOMAIN m => m[k] = pre[p][k]
            /\ ret[p].n = Cardinality(Removed(p))

\* A Purge over two entries, one expired when it took the lock and one live,
\* removed the first, kept the second and returned 1.
C6_Witness ==
    \E p \in DOMAIN pc :
        /\ Done(p, "Purge")
        /\ ret[p].n = 1
        /\ \E k \in DOMAIN pre[p] :
              LogicallyExpired(pre[p][k], t0[p]) /\ k \notin DOMAIN m
        /\ \E k \in DOMAIN m : ~LogicallyExpired(m[k], now)

\* C7: a Purge that follows a Purge, with no other writer in between and no
\* entry in the map passing its expiry since the first took the lock,
\* returns 0 and leaves the map as the first left it.
C7_PurgeIdempotent ==
    \A p \in DOMAIN pc :
        (Done(p, "Purge") /\ second[p] /\ quiet) =>
            ret[p].n = 0 /\ m = pre[p]

\* The second of two Purges returned 0 over a non-empty map from which the
\* first had removed a key.
C7_Witness ==
    \E p \in DOMAIN pc :
        /\ Done(p, "Purge")
        /\ second[p]
        /\ quiet
        /\ ret[p].n = 0
        /\ DOMAIN m # {}
        /\ \E k \in DOMAIN hist : hist[k].op = "Purge"

\* The live part of map mm at time t, as a plain key -> value map.
LivePart(mm, t) ==
    [k \in {x \in DOMAIN mm : ~LogicallyExpired(mm[x], t)} |-> mm[k].v]

\* C8 as stated: Dump returns exactly the live part of the map at the time
\* of the Dump (some instant between taking the lock and returning).
C8_Dump_Original ==
    \A p \in DOMAIN pc :
        Done(p, "Dump") => \E t \in t0[p]..now : dumpm[p] = LivePart(m, t)

\* C8 amended: every key k in Dump's result is in the backing map, with the
\* value stored there, and was not logically expired when Dump took the
\* shared lock; every entry still not expired when Dump returns is in the
\* result (each entry is tested against the clock when the scan reaches it,
\* so an entry that expires during the scan may be included or not).  An
\* entry already expired when Dump took the lock never appears, purged or not.
C8_Dump ==
    \A p \in DOMAIN pc :
        Done(p, "Dump") =>
            /\ \A k \in DOMAIN dumpm[p] :
                  /\ k \in DOMAIN m
                  /\ dumpm[p][k] = m[k].v
                  /\ ~LogicallyExpired(m[k], t0[p])
            /\ \A k \in DOMAIN m :
                  ~LogicallyExpired(m[k], now) => k \in DOMAIN dumpm[p]

\* A Dump over a live and an expired, unpurged entry returned the live one
\* alone.
C8_Witness ==
    \E p \in DOMAIN pc :
        /\ Done(p, "Dump")
        /\ DOMAIN dumpm[p] # {}
        /\ \E k \in DOMAIN m :
              LogicallyExpired(m[k], t0[p]) /\ k \notin DOMAIN dumpm[p]

\* C9: Get and Dump never change the map: from the moment they hold the
\* lock to their return the map has the keys, values and expiration times it
\* had, expired entries included.
C9_ReadsDoNotMutate ==
    \A p \in DOMAIN pc :
        (pc[p] \in {"cs", "unlock"} /\ call[p].op \in {"Get", "Dump"}) =>
            m = pre[p]

\* A Get of an expired entry returned not-found and the entry is still in
\* the map.
C9_Witness ==
    \E p \in DOMAIN pc :
        /\ Done(p, "Get")
        /\ call[p].k \in DOMAIN m
        /\ LogicallyExpired(m[call[p].k], tnow[p])
        /\ ~ret[p].ok
        /\ m = pre[p]

\* Goroutine p is inside its critical section.
Inside(p) == pc[p] \in {"cs", "unlock"}

Writers == {p \in DOMAIN pc :
              Inside(p) /\ call[p].op \in {"Set", "Delete", "SetExpiration",
                                           "Reset", "Purge"}}

Readers == {p \in DOMAIN pc : Inside(p) /\ call[p].op \in {"Get", "Dump"}}

\* C10: at most one of Set, Delete, SetExpiration, Reset, Purge is inside its
\* critical section at a time, and then no Get or Dump is inside its own;
\* whoever is inside holds the mutex, a writer exclusively, a reader at
\* least shared; and the backing map changes only in a step taken while a
\* writer inside its critical section holds the mutex exclusively.
C10_Locking ==
    /\ [](/\ Cardinality(Writers) <= 1
          /\ (Writers # {} => Readers = {})
          /\ \A p \in Writers : mu.writer = p /\ mu.readers = {}
          /\ \A p \in Readers : p \in mu.readers /\ mu.writer = NoProc)
    /\ [][m' # m => (mu.writer \in Writers /\ pc[mu.writer] = "cs")]_vars

\* Two goroutines are inside Get or Dump together, both holding the read lock.
C10_Witness ==
    /\ Cardinality(Readers) >= 2
    /\ Readers \subseteq mu.readers


\* ------------------------------------------------------------------ C11
\* The last writer of key k left it out of the map: k was never Set, or a
\* Delete or a removing Purge came after its last Set.
LeftAbsent(k) == Hist(k).op \in {"none", "Delete", "Purge"}

\* Goroutine p takes the step that is the body of Set on key k.
SetStep(p, k) ==
    /\ pc[p] = "cs"
    /\ call[p].op = "Set"
    /\ call[p].k = k
    /\ pc'[p] = "unlock"

\* C11: in src/timedmap.go, under any interleaving, a key enters the backing
\* map only by the body of a Set on that key; a key never Set, or deleted or
\* purged after its last Set, is absent, Get on it returns the zero value and
\* false, and SetExpiration and Reset on it return false and insert nothing.
C11_OnlySetInserts ==
    /\ [](\A k \in DOMAIN m : ~LeftAbsent(k))
    /\ [](\A p \in DOMAIN pc :
            /\ (Done(p, "Get") /\ LeftAbsent(call[p].k))
                   => (~ret[p].ok /\ ret[p].v = ZeroV)
            /\ ((Done(p, "SetExpiration") \/ Done(p, "Reset"))
                  /\ call[p].k \notin DOMAIN pre[p])
                   => (~ret[p].ok /\ call[p].k \notin DOMAIN m))
    /\ [][\A k \in DOMAIN m' \ DOMAIN m :
             \E p \in DOMAIN pc : SetStep(p, k)]_vars

\* C11 witness: a SetExpiration or a Reset has run on a key that a Purge
\* removed, while another goroutine is inside a call of its own; it
\* returned false and the key is still absent.
C11_Witness ==
    \E p \in DOMAIN pc :
        /\ Done(p, "SetExpiration") \/ Done(p, "Reset")
        /\ Hist(call[p].k).op = "Purge"
        /\ call[p].k \notin DOMAIN m
        /\ ~ret[p].ok
        /\ \E q \in DOMAIN pc \ {p} : pc[q] = "lock"

\* ------------------------------------------------------------------ C12
\* C12: in package timerdb, SetExpiration (and Reset through it) does its
\* lookup holding the mutex shared, holds nothing between RUnlock and Lock,
\* and stores holding it exclusively; the store puts the copy made by the
\* lookup, with the new expiration, into m.m whether or not k is still there,
\* so a key deleted or purged in between is in m.m again, and Get returns
\* any entry that is in m.m and live.
C12_StaleWriteBack ==
    \A p \in DOMAIN pc :
        /\ pc[p] \in {"lookup", "runlock"}
              => (p \in mu.readers /\ mu.writer = NoProc)
        /\ pc[p] = "found?" => (p \notin mu.readers /\ mu.writer # p)
        /\ pc[p] \in {"store", "stored"}
              => (mu.writer = p /\ mu.readers = {} /\ loc[p].found)
        /\ pc[p] = "stored"
              => /\ call[p].k \in DOMAIN m
                 /\ m[call[p].k].v = loc[p].v.v
                 /\ m[call[p].k].expiresAt = call[p].expires
                 /\ SameExcept(m, pre[p], call[p].k)
                 /\ ret[p].ok
        /\ Done(p, "Get")
              => (ret[p].ok <=>
                     /\ call[p].k \in DOMAIN m
                     /\ ~LogicallyExpired(m[call[p].k], tnow[p]))

\* C12 witness: SetExpiration has stored its copy although the last writer
\* of k before it took the mutex was a Delete that has returned and k was
\* not in m.m then: k is back without a Set.
C12_Witness ==
    \E p \in DOMAIN pc :
        /\ pc[p] = "stored"
        /\ prior[p].op = "Delete"
        /\ call[p].k \notin DOMAIN pre[p]
        /\ call[p].k \in DOMAIN m

C14_NonPositiveTTL_Original ==
    defaultExpiration <= 0 =>
        \A p \in DOMAIN pc :
            /\ (Done(p, "Get") /\ Hist(call[p].k).op = "Set") => ~ret[p].ok
            /\ (Done(p, "Delete") /\ prior[p].op = "Set") => ~ret[p].ok
            /\ Done(p, "Dump") =>
                  \A k \in DOMAIN hist :
                      hist[k].op = "Set" => k \notin DOMAIN dumpm[p]

\* C14: New accepts any defaultExpiration.  With a negative one an entry is
\* expired the moment Set creates it; with zero it is live at the instant of
\* the Set and expired as soon as the clock has moved past it.  As long as
\* Set is the last writer of k: Get(k) and Delete(k) return true exactly when
\* defaultExpiration is zero and the clock they read is the instant of the
\* Set (Delete removes k either way); Dump leaves k out when
\* defaultExpiration is negative or the clock had moved on when Dump took
\* the mutex, and has k when defaultExpiration is zero and the clock is still
\* at the instant of the Set when Dump's loop is over.
C14_NonPositiveTTL ==
    defaultExpiration <= 0 =>
        \A p \in DOMAIN pc :
            /\ (Done(p, "Get") /\ Hist(call[p].k).op = "Set")
                  => /\ ret[p].ok <=> (/\ defaultExpiration = 0
                                       /\ tnow[p] = Hist(call[p].k).at)
                     /\ ret[p].v = IF ret[p].ok THEN Hist(call[p].k).v ELSE ZeroV
            /\ (Done(p, "Delete") /\ prior[p].op = "Set")
                  => /\ ret[p].ok <=> (/\ defaultExpiration = 0
                                       /\ tnow[p] = prior[p].at)
                     /\ call[p].k \notin DOMAIN m
            /\ Done(p, "Dump") =>
                  \A k \in DOMAIN hist :
                      hist[k].op = "Set" =>
                          /\ (defaultExpiration < 0 \/ t0[p] > hist[k].at)
                                => k \notin DOMAIN dumpm[p]
                          /\ (defaultExpiration = 0 /\ now = hist[k].at)
                                => k \in DOMAIN dumpm[p]

\* C14 witness: on a map made with a negative defaultExpiration, Get(k) has
\* run at the very instant of Set(k, v) and returned not-found.
C14_Witness ==
    \E p \in DOMAIN pc :
        /\ defaultExpiration < 0
        /\ Done(p, "Get")
        /\ Hist(call[p].k).op = "Set"
        /\ Hist(call[p].k).at = tnow[p]
        /\ ~ret[p].ok

\* ------------------------------------------------------------------ C15
\* A map the caller holds was changed or let go in this step.
SnapshotTouched ==
    \E a \in DOMAIN snap : a \notin DOMAIN snap' \/ snap'[a] # snap[a]

\* C15: the map Dump returns is the caller's alone.  The map a Dump is
\* filling is one nobody holds; a step that changes or drops a map the
\* caller holds is none of the Map's (it leaves the clock, m.m, the mutex and
\* every call under way, with its results, as they were), so no method of
\* the Map and no passing of time changes a returned map, and no store into
\* a returned map changes m.m or what Get and Dump return.
C15_DumpIndependent ==
    /\ [](\A p \in DOMAIN pc :
            addr[p] # NoAddr =>
                /\ addr[p] \notin DOMAIN snap
                /\ \A q \in DOMAIN pc \ {p} : addr[q] # addr[p])
    /\ [][SnapshotTouched =>
             UNCHANGED <<now, defaultExpiration, m, mu, pc, call, todo, i,
                         dumpm, ret, hist>>]_vars

\* C15 witness: the caller holds a map from an earlier Dump that has a key
\* the caller put there itself and a key since deleted from the Map, and a
\* later Dump has run and has neither.
C15_Witness ==
    \E a \in DOMAIN snap, p \in DOMAIN pc :
        /\ \E k \in DOMAIN snap[a] : Hist(k).op = "none"
        /\ \E k \in DOMAIN snap[a] : Hist(k).op = "Delete"
        /\ Done(p, "Dump")
        /\ dumpm[p] = EmptyMap
        /\ m = EmptyMap

\* ------------------------------------------------------------------ C16
\* C16: every operation treats an entry as expired exactly when the clock it
\* reads is strictly after expiresAt; at clock = expiresAt the entry is
\* live.  Get and Delete return true exactly for a present entry whose
\* expiresAt is not before the clock they read.  Purge keeps, and does not
\* count, every entry whose expiresAt is not before the clock when its loop
\* is over, and removes every entry whose expiresAt was before the clock
\* when it took the mutex; Dump has the former and not the latter.
C16_StrictExpiry ==
    \A p \in DOMAIN pc :
        /\ Done(p, "Get") =>
              LET k == call[p].k
              IN  /\ ret[p].ok <=>
                         (k \in DOMAIN pre[p] /\ tnow[p] <= pre[p][k].expiresAt)
                  /\ ret[p].ok => ret[p].v = pre[p][k].v
        /\ Done(p, "Delete") =>
              LET k == call[p].k
              IN  ret[p].ok <=>
                      (k \in DOMAIN pre[p] /\ tnow[p] <= pre[p][k].expiresAt)
        /\ Done(p, "Purge") =>
              /\ \A k \in DOMAIN pre[p] :
                    /\ now <= pre[p][k].expiresAt => k \in DOMAIN m
                    /\ t0[p] > pre[p][k].expiresAt => k \notin DOMAIN m
              /\ ret[p].n = Cardinality(Removed(p))
        /\ Done(p, "Dump") =>
              \A k \in DOMAIN pre[p] :
                  /\ now <= pre[p][k].expiresAt
                        => (k \in DOMAIN dumpm[p] /\ dumpm[p][k] = pre[p][k].v)
                  /\ t0[p] > pre[p][k].expiresAt => k \notin DOMAIN dumpm[p]

\* C16 witness: Purge has run at the very instant one entry's expiresAt is
\* reached and after another's has passed: it kept the first, removed the
\* second and returns 1.
C16_Witness ==
    \E p \in DOMAIN pc :
        /\ Done(p, "Purge")
        /\ \E k \in DOMAIN m : m[k].expiresAt = now /\ t0[p] = now
        /\ \E k \in Removed(p) : pre[p][k].expiresAt < t0[p]
        /\ ret[p].n = 1

\* ------------------------------------------------------------------ C17
\* The last writer of k was a Reset or a SetExpiration (which found k).
Retimed(k) == Hist(k).op \in {"Reset", "SetExpiration"}

\* C17 as stated: a Get(k) at the very instant of a Reset(k) that found k, or
\* of a SetExpiration(k, t) with t not earlier than that instant, returns
\* the value with true.
C17_Revive_Original ==
    \A p \in DOMAIN pc :
        (/\ Done(p, "Get")
         /\ Retimed(call[p].k)
         /\ tnow[p] = Hist(call[p].k).at
         /\ Hist(call[p].k).op = "SetExpiration"
               => Hist(call[p].k).exp >= Hist(call[p].k).at)
            => ret[p].ok

\* C17: Reset and SetExpiration act on any entry that is in m.m, expired or
\* not: they return true and keep its value.  After SetExpiration(k, t) with
\* t not earlier than the clock, and after Reset(k) on a map whose
\* defaultExpiration is not negative, the entry is live again; a Get(k) that
\* reads a clock not after the new expiresAt returns the value of the last
\* Set(k) with true, and a Dump whose loop is over by then has k with that
\* value.  After Reset(k) on a map with a negative defaultExpiration the
\* entry is still expired.  On a key that is not in m.m both return false
\* and leave it out.
C17_Revive ==
    \A p \in DOMAIN pc :
        LET k == call[p].k
        IN  /\ ((Done(p, "Reset") \/ Done(p, "SetExpiration"))
                   /\ k \in DOMAIN pre[p])
                  => /\ ret[p].ok
                     /\ k \in DOMAIN m
                     /\ m[k].v = pre[p][k].v
            /\ (Done(p, "Reset") /\ k \in DOMAIN pre[p])
                  => (~LogicallyExpired(m[k], tnow[p]) <=> defaultExpiration >= 0)
            /\ (Done(p, "SetExpiration") /\ k \in DOMAIN pre[p])
                  => (~LogicallyExpired(m[k], tnow[p])
                         <=> call[p].expires >= tnow[p])
            /\ ((Done(p, "Reset") \/ Done(p, "SetExpiration"))
                   /\ k \notin DOMAIN pre[p])
                  => (~ret[p].ok /\ k \notin DOMAIN m)
            /\ (Done(p, "Get") /\ Retimed(k) /\ tnow[p] <= Hist(k).exp)
                  => (ret[p].ok /\ ret[p].v = Hist(k).v)
            /\ Done(p, "Dump") =>
                  \A x \in DOMAIN hist :
                      (Retimed(x) /\ now <= hist[x].exp)
                          => (x \in DOMAIN dumpm[p] /\ dumpm[p][x] = hist[x].v)

\* C17 witness: Reset has run on an entry that was in m.m and expired; it
\* returned true and the entry, with its value, is live again.
C17_Witness ==
    \E p \in DOMAIN pc :
        /\ Done(p, "Reset")
        /\ call[p].k \in DOMAIN pre[p]
        /\ LogicallyExpired(pre[p][call[p].k], tnow[p])
        /\ ret[p].ok
        /\ ~LogicallyExpired(m[call[p].k], tnow[p])
        /\ m[call[p].k].v # ZeroV

\* ------------------------------------------------------------------ C18
\* The operations run one at a time, each in one step, on map mm at clock t
\* with default TTL d, as the specification describes them: the map they
\* leave and what they return.
AtomicMap(c, mm, t, d) ==
    CASE c.op = "Set" -> Put(mm, c.k, [v |-> c.v, expiresAt |-> t + d])
      [] c.op = "Delete" -> Remove(mm, c.k)
      [] c.op = "SetExpiration" ->
            IF c.k \in DOMAIN mm
            THEN [mm EXCEPT ![c.k].expiresAt = c.expires]
            ELSE mm
      [] c.op = "Reset" ->
            IF c.k \in DOMAIN mm
            THEN [mm EXCEPT ![c.k].expiresAt = t + d]
            ELSE mm
      [] c.op = "Purge" ->
            [k \in {x \in DOMAIN mm : ~LogicallyExpired(mm[x], t)} |-> mm[k]]
      [] OTHER -> mm

AtomicRet(c, mm, t, d) ==
    CASE c.op = "Get" ->
            IF c.k \in DOMAIN mm /\ ~LogicallyExpired(mm[c.k], t)
            THEN [v |-> mm[c.k].v, ok |-> TRUE, n |-> 0]
            ELSE [v |-> ZeroV, ok |-> FALSE, n |-> 0]
      [] c.op = "Delete" ->
            [v |-> ZeroV, n |-> 0,
             ok |-> c.k \in DOMAIN mm /\ ~LogicallyExpired(mm[c.k], t)]
      [] c.op \in {"SetExpiration", "Reset"} ->
            [v |-> ZeroV, n |-> 0, ok |-> c.k \in DOMAIN mm]
      [] c.op = "Purge" ->
            [v |-> ZeroV, ok |-> FALSE,
             n |-> Cardinality({x \in DOMAIN mm : LogicallyExpired(mm[x], t)})]
      [] OTHER -> [v |-> ZeroV, ok |-> FALSE, n |-> 0]

\* The methods that read the clock once (Purge and Dump read it per entry).
OneClockOps == {"Get", "Set", "Delete", "SetExpiration", "Reset"}

\* No one has changed m.m since goroutine p, now inside, took the mutex.
Undisturbed(p) ==
    (pc[p] = "cs" /\ call[p].op # "Purge") => m = pre[p]

\* Goroutine p's Get, Set, Delete, SetExpiration or Reset has had the effect
\* and the result of the atomic operation on the map found when it took the
\* mutex, at the clock it read.
OneClockAtomic(p) ==
    (pc[p] = "unlock" /\ call[p].op \in OneClockOps) =>
        /\ m = AtomicMap(call[p], pre[p], tnow[p], defaultExpiration)
        /\ ret[p] = AtomicRet(call[p], pre[p], tnow[p], defaultExpiration)

\* C18 as stated: every call, Purge and Dump too, has the effect and the
\* result of the atomic operation at one clock value read inside its
\* critical section, on the map left by the calls that took the mutex
\* before it.
C18_Linearizable_Original ==
    \A p \in DOMAIN pc :
        /\ Undisturbed(p)
        /\ OneClockAtomic(p)
        /\ Done(p, "Purge") =>
              \E t \in t0[p]..now :
                  /\ m = AtomicMap(call[p], pre[p], t, defaultExpiration)
                  /\ ret[p] = AtomicRet(call[p], pre[p], t, defaultExpiration)
        /\ Done(p, "Dump") =>
              \E t \in t0[p]..now :
                  /\ m = pre[p]
                  /\ dumpm[p] = LivePart(pre[p], t)

\* C18: with any number of concurrent callers, every call acts on the map
\* left by the calls that took the mutex before it, and no one changes m.m
\* under it.  Get, Set, Delete, SetExpiration and Reset have the effect and
\* the result of the atomic operation at the clock they read.  Purge and
\* Dump test each entry against the clock when the loop reaches it: Purge
\* removes only entries expired by the time its loop is over and keeps only
\* entries live when it took the mutex, unchanged, and returns the number it
\* removed; Dump has only entries live when it took the mutex, has every
\* entry live when its loop is over, with the stored values, and leaves m.m
\* as it was.
C18_Linearizable ==
    \A p \in DOMAIN pc :
        /\ Undisturbed(p)
        /\ OneClockAtomic(p)
        /\ Done(p, "Purge") =>
              /\ \A k \in Removed(p) : LogicallyExpired(pre[p][k], now)
              /\ \A k \in DOMAIN m :
                    /\ k \in DOMAIN pre[p]
                    /\ m[k] = pre[p][k]
                    /\ ~LogicallyExpired(pre[p][k], t0[p])
              /\ ret[p].n = Cardinality(Removed(p))
        /\ Done(p, "Dump") =>
              /\ m = pre[p]
              /\ \A k \in DOMAIN dumpm[p] :
                    /\ k \in DOMAIN pre[p]
                    /\ dumpm[p][k] = pre[p][k].v
                    /\ ~LogicallyExpired(pre[p][k], t0[p])
              /\ \A k \in DOMAIN pre[p] :
                    ~LogicallyExpired(pre[p][k], now) => k \in DOMAIN dumpm[p]

\* C18 witness: a Delete has removed a live entry and returned true while
\* another goroutine's Get of the same key waits for the mutex, after a
\* writer other than this Delete had put the entry there.
C18_Witness ==
    \E p \in DOMAIN pc, q \in DOMAIN pc :
        /\ p # q
        /\ Done(p, "Delete")
        /\ ret[p].ok
        /\ pc[q] = "lock"
        /\ call[q].op = "Get"
        /\ call[q].k = call[p].k
        /\ prior[p].ttlOp = "Reset"

\* ------------------------------------------------------------------ C19
\* C19: in package timerdb, SetExpiration and Reset change an entry's
\* expiration and never its value: when the last writer of k before
\* SetExpiration took the mutex for its store was a Set(k, v2), the value
\* stored for k after the store is v2.
C19_KeepsLatestValue ==
    \A p \in DOMAIN pc :
        (pc[p] = "stored" /\ prior[p].op = "Set")
            => m[call[p].k].v = prior[p].v

\* ------------------------------------------------------------------ C20
\* The places in the code of either package where a goroutine holds the
\* mutex exclusively, and where it holds it shared.
HoldsLock(p) ==
    \/ pc[p] \in {"cs", "unlock"} /\ call[p].op \notin {"Get", "Dump"}
    \/ pc[p] \in {"store", "stored"}

HoldsRLock(p) ==
    \/ pc[p] \in {"cs", "unlock"} /\ call[p].op \in {"Get", "Dump"}
    \/ pc[p] \in {"lookup", "runlock"}

\* No call is under way and nobody holds the mutex.
AllReturned ==
    /\ \A p \in DOMAIN pc : pc[p] = "idle"
    /\ mu.writer = NoProc
    /\ mu.readers = {}

\* C20: in both packages, with finitely many calls: the mutex is held by
\* exactly the goroutines that are between an acquisition and the release
\* that follows it on their path (so every return path, the early "not
\* found" ones too, has released it, and it is free when no call is under
\* way); a goroutine that takes the mutex holds it in no mode just before;
\* and under a fair scheduler every call that has started returns, and in
\* the end all calls have returned and the mutex is free.
C20_NoDeadlockNoLeak ==
    /\ [](\A p \in DOMAIN pc :
            /\ mu.writer = p <=> HoldsLock(p)
            /\ p \in mu.readers <=> HoldsRLock(p))
    /\ [][\A p \in DOMAIN pc :
             (HoldsLock(p)' /\ ~HoldsLock(p)) \/ (HoldsRLock(p)' /\ ~HoldsRLock(p))
                 => (mu.writer # p /\ p \notin mu.readers)]_vars
    /\ \A p \in LiveProcs : (pc[p] # "idle") ~> (pc[p] = "idle")
    /\ <>[]AllReturned

\* C20 witness: in package timerdb, a SetExpiration that found its key has
\* released the shared lock and waits for the exclusive one, which the
\* other goroutine holds, and no further call can be started.
C20_Witness ==
    \E p \in DOMAIN pc, q \in DOMAIN pc :
        /\ pkg = "timerdb"
        /\ pc[p] = "found?"
        /\ loc[p].found
        /\ mu.writer = q
        /\ budget.n = 0
====
